---- MODULE Spec2Model ----
(***************************************************************************)
(* Model of the US exchange calendar engine (src/src/calendar.rs):         *)
(* the Holiday rule variants, Calendar::calc_calendar, the Calendar        *)
(* queries, the next/prev business day walks and the UsExchangeCalendar    *)
(* rule-set holder.                                                        *)
(*                                                                         *)
(* A NaiveDate is modelled by its day number (days since 1970-01-01,       *)
(* proleptic Gregorian); a Weekday by its chrono name; an Option<T> by a   *)
(* sequence of length 0 (None) or 1 (Some).                                *)
(***************************************************************************)
EXTENDS Integers, Sequences, FiniteSets, TLC

VARIABLES
    holiday_rules,  \* the rule list (UsExchangeCalendar.holiday_rules, or a caller's vector)
    cal,            \* the Calendar (UsExchangeCalendar.cal, or the caller's Calendar)
    built,          \* history: Some(rule list, start, end) of the latest completed build
    crashed,        \* TRUE once an unwrap() panicked
    pc,             \* "idle", or where a next_biz_day / prev_biz_day call stands
    date,           \* the `date` local of the running walk
    arg,            \* the date the running walk was called with
    panic,          \* the payload of the panic, once crashed
    json,           \* Some(text) once the rule list was serialized
    decoded         \* Some(rule list) once that text was deserialized

vars == <<holiday_rules, cal, built, crashed, pc, date, arg, panic, json, decoded>>

(***************************************************************************)
(* Bounds of the model.                                                    *)
(***************************************************************************)
\* number of years after YearLo that builds of arbitrary rule lists cover
YearSpan == 3
\* longest rule list handed to calc_calendar by a direct caller
MaxRules == 2
\* most rules add_holiday_rule appends to the holder
MaxAdded == 2
\* days before YearLo / after YearHi from which the walks are started
Margin == 40

(***************************************************************************)
(* Program constants.                                                      *)
(***************************************************************************)
DefaultStart == 2000
DefaultEnd == 2050

YearLo == DefaultStart + 20
YearHi == YearLo + YearSpan

(***************************************************************************)
(* Option<T>                                                               *)
(***************************************************************************)
None == <<>>
Some(x) == <<x>>
unwrap_or(opt, dflt) == IF opt = None THEN dflt ELSE opt[1]

max(a, b) == IF a >= b THEN a ELSE b
min(a, b) == IF a <= b THEN a ELSE b

(***************************************************************************)
(* chrono::Weekday and chrono::NaiveDate                                   *)
(***************************************************************************)
Weekdays == <<"Mon", "Tue", "Wed", "Thu", "Fri", "Sat", "Sun">>
WeekdaySet == {"Mon", "Tue", "Wed", "Thu", "Fri", "Sat", "Sun"}

\* the value of from_ymd_opt(..) = None and of pred_opt/succ_opt = None
NoDate == -1000000

is_leap_year(year) == (year % 4 = 0 /\ year % 100 # 0) \/ year % 400 = 0

DaysInMonth(year, month) ==
    IF month = 2 THEN (IF is_leap_year(year) THEN 29 ELSE 28)
    ELSE IF month \in {4, 6, 9, 11} THEN 30 ELSE 31

\* days since 1970-01-01 of a valid civil date
DaysFromCivil(year, month, day) ==
    LET y   == IF month <= 2 THEN year - 1 ELSE year
        era == y \div 400
        yoe == y - era * 400
        mp  == IF month > 2 THEN month - 3 ELSE month + 9
        doy == (153 * mp + 2) \div 5 + day - 1
        doe == yoe * 365 + yoe \div 4 - yoe \div 100 + doy
    IN  era * 146097 + doe - 719468

\* NaiveDate::from_ymd_opt: None for a month or day that does not exist
from_ymd_opt(year, month, day) ==
    IF month >= 1 /\ month <= 12 /\ day >= 1 /\ day <= DaysInMonth(year, month)
    THEN DaysFromCivil(year, month, day)
    ELSE NoDate

\* the civil date of a day number, as [year, month, day]
Civil(d) ==
    LET z   == d + 719468
        era == z \div 146097
        doe == z - era * 146097
        yoe == (doe - doe \div 1460 + doe \div 36524 - doe \div 146096) \div 365
        doy == doe - (365 * yoe + yoe \div 4 - yoe \div 100)
        mp  == (5 * doy + 2) \div 153
        dd  == doy - (153 * mp + 2) \div 5 + 1
        mm  == IF mp < 10 THEN mp + 3 ELSE mp - 9
    IN  [year |-> yoe + era * 400 + (IF mm <= 2 THEN 1 ELSE 0), month |-> mm, day |-> dd]

year_of(d) == Civil(d).year
month_of(d) == Civil(d).month
day_of(d) == Civil(d).day

\* Datelike::weekday (1970-01-01 was a Thursday)
weekday(d) == Weekdays[((d + 3) % 7) + 1]

\* NaiveDate::pred_opt / succ_opt; a propagated None stays None
pred_opt(d) == IF d = NoDate THEN NoDate ELSE d - 1
succ_opt(d) == IF d = NoDate THEN NoDate ELSE d + 1

(***************************************************************************)
(* HalfCheck, NthWeek and the Holiday rule variants                        *)
(***************************************************************************)
HalfChecks == {"Before", "After"}
NthWeeks == {"First", "Second", "Third", "Fourth", "Last"}

WeekDay(wd) == [kind |-> "WeekDay", weekday |-> wd]
MovableYearlyDay(month, day, first, last, half_check) ==
    [kind |-> "MovableYearlyDay", month |-> month, day |-> day,
     first |-> first, last |-> last, half_check |-> half_check]
SingularDay(d) == [kind |-> "SingularDay", date |-> d]
EasterOffset(offset, first, last) ==
    [kind |-> "EasterOffset", offset |-> offset, first |-> first, last |-> last]
MonthWeekday(month, wd, nth, first, last, half_check) ==
    [kind |-> "MonthWeekday", month |-> month, weekday |-> wd, nth |-> nth,
     first |-> first, last |-> last, half_check |-> half_check]

(***************************************************************************)
(* Calendar and the builder's accumulators.  `panicked` is set when an     *)
(* unwrap() met None: the build unwinds and returns no Calendar.           *)
(***************************************************************************)
EmptyCalendar == [holidays |-> {}, halfdays |-> {}, weekdays |-> <<>>]

NewBuild == [holidays |-> {}, halfdays |-> {}, weekdays |-> <<>>, panicked |-> FALSE]
Unwound == [holidays |-> {}, halfdays |-> {}, weekdays |-> <<>>, panicked |-> TRUE]

\* what Option::unwrap() panics with on None: a fixed message and the place
\* of the unwrap in the source
unwrap_none ==
    [message |-> "called Option::unwrap() on a None value",
     location |-> "src/calendar.rs"]

\* Calendar::from_ymd: the unwrap of from_ymd_opt
from_ymd(year, month, day) == from_ymd_opt(year, month, day)

\* Gregorian Easter Sunday of a year (computus::gregorian), as [year, month, day]
gregorian(year) ==
    LET a == year % 19
        b == year \div 100
        c == year % 100
        d == b \div 4
        e == b % 4
        f == (b + 8) \div 25
        g == (b - f + 1) \div 3
        h == (19 * a + b - d - g + 15) % 30
        i == c \div 4
        k == c % 4
        l == (32 + 2 * e + 2 * i - h - k) % 7
        m == (a + 11 * h + 22 * l) \div 451
        n == h + l - 7 * m + 114
    IN  [year |-> year, month |-> n \div 31, day |-> (n % 31) + 1]

\* mutant: first and last are ignored
calc_first_and_last_unclamped(start, end, first, last) == <<start, end>>

calc_first_and_last(start, end, first, last) ==
    <<IF first # None THEN max(start, first[1]) ELSE start,
      IF last # None THEN min(end, last[1]) ELSE end>>

\* the (end of month, end of year) of a date
accounting_period_end(d) ==
    LET month == month_of(d)
        year == year_of(d)
        next_month == from_ymd_opt(year, month + 1, 1)
        last_date_of_month ==
            pred_opt(IF next_month # NoDate THEN next_month ELSE from_ymd(year + 1, 1, 1))
        last_date_of_year == from_ymd_opt(year, 12, 31)
    IN  <<last_date_of_month, last_date_of_year>>

\* mutant: no suppression on Monday / Friday
do_halfday_check_always(d, halfdays, half_check) ==
    IF half_check = None THEN halfdays
    ELSE IF half_check[1] = "Before" THEN halfdays \cup {pred_opt(d)}
    ELSE halfdays \cup {succ_opt(d)}

do_halfday_check(d, halfdays, half_check) ==
    IF half_check = None THEN halfdays
    ELSE IF half_check[1] = "Before"
         THEN (IF weekday(d) = "Mon" THEN halfdays ELSE halfdays \cup {pred_opt(d)})
         ELSE (IF weekday(d) = "Fri" THEN halfdays ELSE halfdays \cup {succ_opt(d)})

last_day_of_month(year, month) ==
    LET next_month == from_ymd_opt(year, month + 1, 1)
    IN  day_of(pred_opt(IF next_month # NoDate THEN next_month
                        ELSE from_ymd(year + 1, 1, 1)))

\* mutant: Sunday is moved back too, onto Saturday
weekend_shift_back(d) ==
    IF weekday(d) = "Sat" \/ weekday(d) = "Sun" THEN pred_opt(d) ELSE d

\* the weekend shift of a MovableYearlyDay candidate: Saturday to Friday,
\* Sunday to Monday
weekend_shift(d) ==
    IF weekday(d) = "Sat" THEN pred_opt(d)
    ELSE IF weekday(d) = "Sun" THEN succ_opt(d)
    ELSE d

\* mutant: only the end of the year is excluded
not_period_end_year_only(d) == d # accounting_period_end(d)[2]

\* the use-the-date test: not the end of a month or a year
not_period_end(d) ==
    LET ends == accounting_period_end(d)
    IN  d # ends[1] /\ d # ends[2]

\* mutant: the half-day check runs for a shifted date too
movable_year_half_always(acc, rule, year) ==
    LET d0 == from_ymd(year, rule.month, rule.day)
        d == weekend_shift(d0)
    IN  IF d0 = NoDate THEN Unwound
        ELSE IF not_period_end(d)
        THEN [acc EXCEPT !.holidays = @ \cup {d},
                         !.halfdays = do_halfday_check(d, @, rule.half_check)]
        ELSE acc

\* one iteration of the MovableYearlyDay loop
movable_year(acc, rule, year) ==
    LET d0 == from_ymd(year, rule.month, rule.day)
        moved_already == weekday(d0) \in {"Sat", "Sun"}
        d == weekend_shift(d0)
    IN  IF d0 = NoDate THEN Unwound
        ELSE IF not_period_end(d)
        THEN [acc EXCEPT !.holidays = @ \cup {d},
                         !.halfdays = IF ~moved_already
                                      THEN do_halfday_check(d, @, rule.half_check)
                                      ELSE @]
        ELSE acc

\* one iteration of the EasterOffset loop
easter_year(acc, rule, year) ==
    LET e == gregorian(year)
        easter == from_ymd(e.year, e.month, e.day)
    IN  IF easter = NoDate THEN Unwound
        ELSE [acc EXCEPT !.holidays = @ \cup {easter + rule.offset}]

\* mutant: the Last walk goes forward like the others
RECURSIVE seek_weekday_forward(_, _, _)
seek_weekday_forward(d, wd, nth) ==
    IF weekday(d) = wd THEN d
    ELSE seek_weekday_forward(succ_opt(d), wd, nth)

\* the while loop of the MonthWeekday arm
RECURSIVE seek_weekday(_, _, _)
seek_weekday(d, wd, nth) ==
    IF weekday(d) = wd THEN d
    ELSE seek_weekday(IF nth = "Last" THEN pred_opt(d) ELSE succ_opt(d), wd, nth)

\* one iteration of the MonthWeekday loop
month_weekday_year(acc, rule, year) ==
    LET day == CASE rule.nth = "First" -> 1
                 [] rule.nth = "Second" -> 8
                 [] rule.nth = "Third" -> 15
                 [] rule.nth = "Fourth" -> 22
                 [] rule.nth = "Last" -> last_day_of_month(year, rule.month)
        d0 == from_ymd(year, rule.month, day)
        d == seek_weekday(d0, rule.weekday, rule.nth)
    IN  IF d0 = NoDate THEN Unwound
        ELSE [acc EXCEPT !.holidays = @ \cup {d},
                         !.halfdays = do_halfday_check(d, @, rule.half_check)]

rule_year(acc, rule, year) ==
    CASE rule.kind = "MovableYearlyDay" -> movable_year(acc, rule, year)
      [] rule.kind = "EasterOffset" -> easter_year(acc, rule, year)
      [] rule.kind = "MonthWeekday" -> month_weekday_year(acc, rule, year)

\* for year in first..last + 1
RECURSIVE for_years(_, _, _, _)
for_years(acc, rule, year, last) ==
    IF year > last \/ acc.panicked THEN acc
    ELSE for_years(rule_year(acc, rule, year), rule, year + 1, last)

\* mutant: a SingularDay also clears the date's half-day marker
apply_rule_clearing(acc, rule, start, end) ==
    CASE rule.kind = "SingularDay" ->
            IF year_of(rule.date) >= start /\ year_of(rule.date) <= end
            THEN [acc EXCEPT !.holidays = @ \cup {rule.date},
                             !.halfdays = @ \ {rule.date}]
            ELSE acc
      [] rule.kind = "WeekDay" ->
            [acc EXCEPT !.weekdays = Append(@, rule.weekday)]
      [] OTHER ->
            LET fl == calc_first_and_last(start, end, rule.first, rule.last)
            IN  for_years(acc, rule, fl[1], fl[2])

\* the body of `for rule in holiday_rules`: one match arm
apply_rule(acc, rule, start, end) ==
    CASE rule.kind = "SingularDay" ->
            IF year_of(rule.date) >= start /\ year_of(rule.date) <= end
            THEN [acc EXCEPT !.holidays = @ \cup {rule.date}]
            ELSE acc
      [] rule.kind = "WeekDay" ->
            [acc EXCEPT !.weekdays = Append(@, rule.weekday)]
      [] OTHER ->
            LET fl == calc_first_and_last(start, end, rule.first, rule.last)
            IN  for_years(acc, rule, fl[1], fl[2])

RECURSIVE for_rules(_, _, _, _, _)
for_rules(acc, rules, i, start, end) ==
    IF i > Len(rules) \/ acc.panicked THEN acc
    ELSE for_rules(apply_rule(acc, rules[i], start, end), rules, i + 1, start, end)

\* Calendar::calc_calendar; the result carries `panicked` when no Calendar
\* is returned
calc_calendar(rules, start, end) == for_rules(NewBuild, rules, 1, start, end)

CalendarOf(b) == [holidays |-> b.holidays, halfdays |-> b.halfdays, weekdays |-> b.weekdays]

(***************************************************************************)
(* Calendar queries                                                        *)
(***************************************************************************)
RECURSIVE weekday_listed(_, _, _)
weekday_listed(weekdays, wd, i) ==
    IF i > Len(weekdays) THEN FALSE
    ELSE IF wd = weekdays[i] THEN TRUE
    ELSE weekday_listed(weekdays, wd, i + 1)

\* mutant: one listed weekday closes every day of the week
is_weekend_any(c, d) == Len(c.weekdays) > 0

is_weekend(c, d) == weekday_listed(c.weekdays, weekday(d), 1)

\* mutant: a date of a year the Calendar holds no holiday of is closed
is_holiday_unknown_closed(c, d) ==
    \/ d \in c.holidays
    \/ c.holidays # {} /\ \A h \in c.holidays : year_of(h) # year_of(d)

is_holiday(c, d) == d \in c.holidays
is_half_holiday(c, d) == d \in c.halfdays
\* mutant: a half-day counted as closed
is_business_day_closed_half(c, d) ==
    ~is_weekend(c, d) /\ ~is_holiday(c, d) /\ ~is_half_holiday(c, d)

is_business_day(c, d) == ~is_weekend(c, d) /\ ~is_holiday(c, d)

(***************************************************************************)
(* The default exchange rule table of UsExchangeCalendar                   *)
(***************************************************************************)
DefaultRules ==
    << WeekDay("Sat"),
       WeekDay("Sun"),
       MovableYearlyDay(1, 1, None, None, None),
       MonthWeekday(1, "Mon", "Third", None, None, None),
       MonthWeekday(2, "Mon", "Third", None, None, None),
       EasterOffset(-2, Some(2000), None),
       MonthWeekday(5, "Mon", "Last", None, None, None),
       MovableYearlyDay(6, 19, Some(2022), None, None),
       MovableYearlyDay(7, 4, None, None, Some("Before")),
       MonthWeekday(9, "Mon", "First", None, None, None),
       MonthWeekday(11, "Thu", "Fourth", None, None, Some("After")),
       MovableYearlyDay(12, 25, None, None, Some("Before")),
       SingularDay(from_ymd(2001, 9, 11)) >>

(***************************************************************************)
(* Inputs of the model                                                     *)
(***************************************************************************)
Years == YearLo .. YearHi

\* what a caller passes to populate_cal as start and as end
StartArgs == {None, Some(YearLo + 1), Some(YearLo + 2)}
EndArgs == {None, Some(YearHi - 1)}

\* rules handed to add_holiday_rule
AdHocRules ==
    { MonthWeekday(3, "Wed", "Third", None, None, None),
      SingularDay(from_ymd(YearLo + 1, 7, 2)) }

\* the dates the walks may visit
WindowLo == from_ymd(YearLo, 1, 1) - Margin
WindowHi == from_ymd(YearHi, 12, 31) + Margin

(***************************************************************************)
(* UsExchangeCalendar: the holder's operations                             *)
(***************************************************************************)
\* with_default_range(populate) with ADDITIONAL_RULES unset
with_default_range(populate) ==
    /\ holiday_rules = DefaultRules
    /\ crashed = FALSE
    /\ panic = None
    /\ json = None
    /\ decoded = None
    /\ pc = "idle"
    /\ date = NoDate
    /\ arg = NoDate
    /\ IF populate
       THEN /\ cal = CalendarOf(calc_calendar(DefaultRules, DefaultStart, DefaultEnd))
            /\ built = Some([rules |-> DefaultRules, start |-> None, end |-> None])
       ELSE /\ cal = EmptyCalendar
            /\ built = None

Init == \E populate \in BOOLEAN : with_default_range(populate)

Quiet == ~crashed /\ pc = "idle"

add_holiday_rule(holiday) ==
    /\ Quiet
    /\ Len(holiday_rules) < Len(DefaultRules) + MaxAdded
    /\ holiday_rules' = Append(holiday_rules, holiday)
    /\ UNCHANGED <<cal, built, crashed, pc, date, arg, panic, json, decoded>>

\* mutant: the new build is merged into the previous snapshot
populated_patching(old, b) ==
    [holidays |-> old.holidays \cup b.holidays,
     halfdays |-> old.halfdays \cup b.halfdays,
     weekdays |-> old.weekdays \o b.weekdays]

\* the Calendar populate_cal assigns to self.cal
populated(old, b) == CalendarOf(b)

populate_cal(start, end) ==
    /\ Quiet
    /\ LET s == unwrap_or(start, DefaultStart)
           e == unwrap_or(end, DefaultEnd)
           b == calc_calendar(holiday_rules, s, e)
       IN  IF b.panicked
           THEN /\ crashed' = TRUE
                /\ panic' = Some(unwrap_none)
                /\ UNCHANGED <<cal, built>>
           ELSE /\ cal' = populated(cal, b)
                /\ built' = Some([rules |-> holiday_rules, start |-> start, end |-> end])
                /\ UNCHANGED <<crashed, panic>>
    /\ UNCHANGED <<holiday_rules, pc, date, arg, json, decoded>>

get_cal == cal

(***************************************************************************)
(* Calendar::next_biz_day / prev_biz_day, one loop iteration per step      *)
(***************************************************************************)
\* mutant: the walk starts on the argument itself
next_first_same(d) == d

\* the date a walk starts on
next_first(d) == succ_opt(d)
prev_first(d) == pred_opt(d)

InWindow(d) == d >= WindowLo /\ d <= WindowHi

next_biz_day_call(d) ==
    /\ Quiet
    /\ pc' = "next_biz_day"
    /\ arg' = d
    /\ date' = next_first(d)
    /\ UNCHANGED <<holiday_rules, cal, built, crashed, panic, json, decoded>>

prev_biz_day_call(d) ==
    /\ Quiet
    /\ pc' = "prev_biz_day"
    /\ arg' = d
    /\ date' = prev_first(d)
    /\ UNCHANGED <<holiday_rules, cal, built, crashed, panic, json, decoded>>

next_biz_day_loop ==
    /\ pc = "next_biz_day"
    /\ ~is_business_day(cal, date)
    /\ InWindow(date)
    /\ date' = succ_opt(date)
    /\ UNCHANGED <<holiday_rules, cal, built, crashed, panic, json, decoded, pc, arg>>

prev_biz_day_loop ==
    /\ pc = "prev_biz_day"
    /\ ~is_business_day(cal, date)
    /\ InWindow(date)
    /\ date' = pred_opt(date)
    /\ UNCHANGED <<holiday_rules, cal, built, crashed, panic, json, decoded, pc, arg>>

next_biz_day_return ==
    /\ pc = "next_biz_day"
    /\ is_business_day(cal, date)
    /\ pc' = "next_returned"
    /\ UNCHANGED <<holiday_rules, cal, built, crashed, panic, json, decoded, date, arg>>

prev_biz_day_return ==
    /\ pc = "prev_biz_day"
    /\ is_business_day(cal, date)
    /\ pc' = "prev_returned"
    /\ UNCHANGED <<holiday_rules, cal, built, crashed, panic, json, decoded, date, arg>>

\* the caller takes the returned date
resume ==
    /\ pc \in {"next_returned", "prev_returned"}
    /\ pc' = "idle"
    /\ date' = NoDate
    /\ arg' = NoDate
    /\ UNCHANGED <<holiday_rules, cal, built, crashed, panic, json, decoded>>

(***************************************************************************)
(* Specifications                                                          *)
(***************************************************************************)
\* the dates next_biz_day / prev_biz_day are called with
WalkArgs ==
    { from_ymd(YearLo + 1, 1, 18), from_ymd(YearLo + 1, 4, 1),
      from_ymd(YearLo + 1, 4, 16), from_ymd(YearLo + 3, 7, 1),
      from_ymd(YearLo + 3, 7, 5), WindowLo + 2 }

Walk ==
    \/ \E d \in WalkArgs : next_biz_day_call(d)
    \/ \E d \in WalkArgs : prev_biz_day_call(d)
    \/ next_biz_day_loop
    \/ prev_biz_day_loop
    \/ next_biz_day_return
    \/ prev_biz_day_return
    \/ resume

\* The holder: the default table, ad-hoc rules and rebuilds.  (The walks
\* run on the Calendar clone get_cal hands out, see SpecCalc.)
Next ==
    \/ \E h \in AdHocRules : add_holiday_rule(h)
    \/ \E s \in StartArgs, e \in EndArgs : populate_cal(s, e)

Spec == Init /\ [][Next]_vars

\* The default table built once over every range within 2000..2050.
DefaultYearArgs == {None} \cup {Some(y) : y \in DefaultStart .. DefaultEnd}

NextDefault ==
    \E s \in DefaultYearArgs, e \in DefaultYearArgs : built = None /\ populate_cal(s, e)

SpecDefault == Init /\ [][NextDefault]_vars

\* A caller of Calendar::calc_calendar: a rule vector of its own, the
\* Calendar computed from it, and walks over that Calendar.
CallerInit(rules) ==
    /\ holiday_rules = rules
    /\ cal = EmptyCalendar
    /\ built = None
    /\ crashed = FALSE
    /\ panic = None
    /\ json = None
    /\ decoded = None
    /\ pc = "idle"
    /\ date = NoDate
    /\ arg = NoDate

CalcRules ==
    { WeekDay("Sat"),
      WeekDay("Sun"),
      MovableYearlyDay(7, 4, None, None, Some("Before")),
      SingularDay(from_ymd(YearLo + 3, 7, 3)),
      MonthWeekday(11, "Thu", "Fourth", Some(YearLo + 1), None, Some("After")),
      EasterOffset(-2, None, Some(YearHi - 1)),
      MovableYearlyDay(2, 29, None, None, None) }

RuleLists == UNION {[1 .. n -> CalcRules] : n \in 0 .. MaxRules} \cup {DefaultRules}

InitCalc == \E rules \in RuleLists : CallerInit(rules)

NextCalc ==
    \/ \E s \in Years, e \in Years : s <= e /\ populate_cal(Some(s), Some(e))
    \/ Walk

SpecCalc == InitCalc /\ [][NextCalc]_vars

\* calc_calendar applied once to a single rule with a year clamp.
FirstArgs == {None, Some(YearLo + 1)}
LastArgs == {None, Some(YearHi - 1)}
HalfCheckArgs == {None, Some("Before"), Some("After")}
MovableDays == {1, 2, 4, 15, 19, 25, 28, 29, 30, 31}
EasterOffsets == {-120, -47, -2, 0, 1, 39, 260}

MovableRules ==
    { MovableYearlyDay(m, d, f, l, h) :
        m \in 1 .. 12, d \in MovableDays, f \in FirstArgs, l \in LastArgs,
        h \in HalfCheckArgs }

MonthWeekdayRules ==
    { MonthWeekday(m, w, n, f, l, h) :
        m \in 1 .. 12, w \in WeekdaySet, n \in NthWeeks, f \in FirstArgs,
        l \in LastArgs, h \in HalfCheckArgs }

EasterRules ==
    { EasterOffset(o, f, l) : o \in EasterOffsets, f \in FirstArgs, l \in LastArgs }

SingleRules == MovableRules \cup MonthWeekdayRules \cup EasterRules

InitRule == \E r \in SingleRules : CallerInit(<<r>>)

NextRule ==
    \E s \in Years, e \in Years : s <= e /\ built = None /\ populate_cal(Some(s), Some(e))

SpecRule == InitRule /\ [][NextRule]_vars

(***************************************************************************)
(* Vocabulary of the properties, stated on the Calendar's raw fields       *)
(***************************************************************************)
WeekendSet(c) == {c.weekdays[i] : i \in 1 .. Len(c.weekdays)}
Open(c, d) == weekday(d) \notin WeekendSet(c) /\ d \notin c.holidays
Window == WindowLo .. WindowHi

\* the years of the latest build
BuiltStart == IF built[1].start = None THEN 2000 ELSE built[1].start[1]
BuiltEnd == IF built[1].end = None THEN 2050 ELSE built[1].end[1]

(***************************************************************************)
(* C1: for every Calendar calc_calendar produced and every date d,         *)
(* is_business_day(d) is true exactly when d's weekday is not a weekend    *)
(* weekday and d is not a full holiday; whether d is a half-day never      *)
(* changes the answer.  Checked for every date of the window whenever no   *)
(* walk runs, and for the date under test while one runs.                  *)
(***************************************************************************)
C1_Probes == IF pc = "idle" THEN Window ELSE {date}

C1_BusinessDay ==
    \A d \in C1_Probes :
        /\ is_business_day(cal, d) <=> Open(cal, d)
        /\ is_business_day([cal EXCEPT !.halfdays = @ \cup {d}], d)
             = is_business_day([cal EXCEPT !.halfdays = @ \ {d}], d)

\* a built Calendar with a weekend, a weekday holiday and an open half-day
C1_Witness ==
    /\ pc = "idle"
    /\ built # None
    /\ \E d \in cal.halfdays : is_business_day(cal, d)
    /\ \E d \in cal.holidays : ~is_weekend(cal, d) /\ ~is_business_day(cal, d)
    /\ \E d \in Window : is_weekend(cal, d) /\ ~is_holiday(cal, d) /\ ~is_business_day(cal, d)

(***************************************************************************)
(* C2: next_biz_day(d) returns the smallest date strictly after d that is  *)
(* a business day, and prev_biz_day(d) the largest one strictly before d:  *)
(* the result is never d itself and every date in between is closed.       *)
(***************************************************************************)
C2_NextPrevBizDay ==
    /\ pc = "next_returned" =>
          /\ date > arg
          /\ Open(cal, date)
          /\ \A x \in (arg + 1) .. (date - 1) : ~Open(cal, x)
    /\ pc = "prev_returned" =>
          /\ date < arg
          /\ Open(cal, date)
          /\ \A x \in (date + 1) .. (arg - 1) : ~Open(cal, x)

\* a walk from an open day that stepped over a holiday and a weekend day
C2_Witness ==
    /\ pc = "next_returned"
    /\ Open(cal, arg)
    /\ \E x \in (arg + 1) .. (date - 1) : x \in cal.holidays
    /\ \E x \in (arg + 1) .. (date - 1) : is_weekend(cal, x)

(***************************************************************************)
(* Vocabulary of the single-rule properties                                *)
(***************************************************************************)
TheRule == holiday_rules[1]
SingleBuilt(kinds) ==
    Len(holiday_rules) = 1 /\ TheRule.kind \in kinds /\ built # None /\ ~crashed

\* the years of the build range that the rule's first / last leave
ClampedYears ==
    { y \in BuiltStart .. BuiltEnd :
        /\ TheRule.first # None => y >= TheRule.first[1]
        /\ TheRule.last # None => y <= TheRule.last[1] }

\* the (year, month, day) of a MovableYearlyDay rule, and where the weekend
\* shift puts it
Candidate(y) == DaysFromCivil(y, TheRule.month, TheRule.day)
OnWeekend(d) == weekday(d) = "Sat" \/ weekday(d) = "Sun"
Shifted(y) ==
    CASE weekday(Candidate(y)) = "Sat" -> Candidate(y) - 1
      [] weekday(Candidate(y)) = "Sun" -> Candidate(y) + 1
      [] OTHER -> Candidate(y)

EndOfMonth(d) == day_of(d + 1) = 1
EndOfYear(d) == month_of(d) = 12 /\ day_of(d) = 31

(***************************************************************************)
(* C3: for a single MovableYearlyDay rule and every year of its clamped    *)
(* range, a shifted candidate that is the last day of its month or         *)
(* December 31 of its year is not in the holiday set; so a January 1 rule  *)
(* never makes the preceding December 31 a holiday.                        *)
(***************************************************************************)
C3_BoundaryExclusion ==
    SingleBuilt({"MovableYearlyDay"}) =>
        \A y \in ClampedYears :
            (EndOfMonth(Shifted(y)) \/ EndOfYear(Shifted(y))) => Shifted(y) \notin cal.holidays

\* New Year's Day over a range holding a year whose January 1 is a Saturday
C3_Witness ==
    /\ SingleBuilt({"MovableYearlyDay"})
    /\ TheRule.month = 1 /\ TheRule.day = 1
    /\ \E y \in ClampedYears :
          /\ weekday(Candidate(y)) = "Sat"
          /\ EndOfYear(Shifted(y))
          /\ Shifted(y) \notin cal.holidays
    /\ \E y \in ClampedYears : Candidate(y) \in cal.holidays

(***************************************************************************)
(* C4: every date a MovableYearlyDay rule puts in the holiday set falls on *)
(* a weekday other than Saturday and Sunday.                               *)
(***************************************************************************)
C4_NoWeekendHoliday ==
    SingleBuilt({"MovableYearlyDay"}) => \A d \in cal.holidays : ~OnWeekend(d)

\* a Saturday candidate moved to Friday and a Sunday candidate moved to Monday
C4_Witness ==
    /\ SingleBuilt({"MovableYearlyDay"})
    /\ \E y \in ClampedYears :
          weekday(Candidate(y)) = "Sat" /\ Candidate(y) - 1 \in cal.holidays
    /\ \E y \in ClampedYears :
          weekday(Candidate(y)) = "Sun" /\ Candidate(y) + 1 \in cal.holidays

(***************************************************************************)
(* C5: for a single MovableYearlyDay or MonthWeekday rule with a half-day  *)
(* adjacency, the half-day rule records nothing for a holiday d on Monday  *)
(* with Before and nothing for d on Friday with After; in every other case *)
(* where it is applied it records exactly d-1 (Before) or d+1 (After).     *)
(* The rule is applied to every MonthWeekday holiday and to every          *)
(* MovableYearlyDay holiday that is its year's unshifted candidate.        *)
(***************************************************************************)
HalfApplied ==
    IF TheRule.kind = "MonthWeekday" THEN cal.holidays
    ELSE {d \in cal.holidays : \E y \in ClampedYears : d = Candidate(y)}

HalfSuppressed(d) ==
    \/ TheRule.half_check = Some("Before") /\ weekday(d) = "Mon"
    \/ TheRule.half_check = Some("After") /\ weekday(d) = "Fri"

HalfOf(d) == IF TheRule.half_check = Some("Before") THEN d - 1 ELSE d + 1

C5_HalfDayRule ==
    (SingleBuilt({"MovableYearlyDay", "MonthWeekday"}) /\ TheRule.half_check # None) =>
        cal.halfdays = {HalfOf(d) : d \in {a \in HalfApplied : ~HalfSuppressed(a)}}

\* one build with a suppressed anchor in one year and a recorded half-day
\* in another
C5_Witness ==
    /\ SingleBuilt({"MovableYearlyDay", "MonthWeekday"})
    /\ TheRule.half_check # None
    /\ \E d \in HalfApplied : HalfSuppressed(d) /\ HalfOf(d) \notin cal.halfdays
    /\ \E d \in HalfApplied : ~HalfSuppressed(d) /\ HalfOf(d) \in cal.halfdays

(***************************************************************************)
(* C6: for a single MovableYearlyDay rule with a half-day adjacency, a     *)
(* year whose candidate falls on Saturday or Sunday (and is shifted)       *)
(* records no half-day; every recorded half-day is next to the unshifted   *)
(* candidate of some year.                                                 *)
(***************************************************************************)
C6_NoHalfDayWhenShifted ==
    (SingleBuilt({"MovableYearlyDay"}) /\ TheRule.half_check # None) =>
        /\ \A y \in ClampedYears :
              OnWeekend(Candidate(y)) =>
                  /\ HalfOf(Shifted(y)) \notin cal.halfdays
                  /\ HalfOf(Candidate(y)) \notin cal.halfdays
        /\ \A h \in cal.halfdays :
              \E y \in ClampedYears : ~OnWeekend(Candidate(y)) /\ h = HalfOf(Candidate(y))
        /\ Cardinality(cal.halfdays)
              <= Cardinality({y \in ClampedYears : ~OnWeekend(Candidate(y))})

\* a shifted year whose holiday was inserted without a half-day, next to an
\* unshifted year that recorded one
C6_Witness ==
    /\ SingleBuilt({"MovableYearlyDay"})
    /\ TheRule.half_check # None
    /\ \E y \in ClampedYears :
          /\ OnWeekend(Candidate(y))
          /\ Shifted(y) \in cal.holidays
          /\ HalfOf(Shifted(y)) \notin cal.halfdays
    /\ cal.halfdays # {}

(***************************************************************************)
(* C7 as stated: a rule with first = F, built over a range starting before *)
(* F, contributes no holiday and no half-day whose calendar year is less   *)
(* than F; a rule with last = L none whose year is greater than L.         *)
(***************************************************************************)
C7_Original ==
    SingleBuilt({"MovableYearlyDay", "EasterOffset", "MonthWeekday"}) =>
        \A d \in cal.holidays \cup cal.halfdays :
            /\ (TheRule.first # None /\ BuiltStart < TheRule.first[1])
                  => year_of(d) >= TheRule.first[1]
            /\ (TheRule.last # None /\ BuiltEnd > TheRule.last[1])
                  => year_of(d) <= TheRule.last[1]

(***************************************************************************)
(* C7 amended: the rule is evaluated for no year before F and none after   *)
(* L.  Every holiday comes from a year y of the clamped range: a           *)
(* MovableYearlyDay holiday is (y, month, day) or the day next to it, a    *)
(* MonthWeekday holiday lies in the rule's month of y, an EasterOffset     *)
(* holiday is Easter Sunday of y plus the offset; every half-day is the    *)
(* day before or after such a holiday.  So no MovableYearlyDay or          *)
(* MonthWeekday date is earlier than December 31 of F-1 or later than      *)
(* January 1 of L+1.                                                       *)
(***************************************************************************)
EasterSunday(y) == DaysFromCivil(y, gregorian(y).month, gregorian(y).day)

FromYear(d, y) ==
    CASE TheRule.kind = "MovableYearlyDay" ->
            d \in {Candidate(y) - 1, Candidate(y), Candidate(y) + 1}
      [] TheRule.kind = "MonthWeekday" ->
            year_of(d) = y /\ month_of(d) = TheRule.month
      [] TheRule.kind = "EasterOffset" ->
            d = EasterSunday(y) + TheRule.offset

C7_Clamped ==
    SingleBuilt({"MovableYearlyDay", "EasterOffset", "MonthWeekday"}) =>
        /\ \A d \in cal.holidays : \E y \in ClampedYears : FromYear(d, y)
        /\ \A h \in cal.halfdays : \E d \in cal.holidays : h = d - 1 \/ h = d + 1
        /\ TheRule.kind # "EasterOffset" =>
              \A d \in cal.holidays \cup cal.halfdays :
                  /\ TheRule.first # None
                        => d >= DaysFromCivil(TheRule.first[1] - 1, 12, 31)
                  /\ TheRule.last # None
                        => d <= DaysFromCivil(TheRule.last[1] + 1, 1, 1)

\* a rule with first = F built from an earlier year: its half-day falls on
\* December 31 of F-1
C7_Witness ==
    /\ SingleBuilt({"MovableYearlyDay", "MonthWeekday"})
    /\ TheRule.first # None
    /\ BuiltStart < TheRule.first[1]
    /\ DaysFromCivil(TheRule.first[1] - 1, 12, 31) \in cal.halfdays
    /\ cal.holidays # {}

(***************************************************************************)
(* C8: for the default exchange rule table built over any year range       *)
(* within 2000..2050, every half-day is a business day: it falls on no     *)
(* Saturday or Sunday and is no full holiday.                              *)
(***************************************************************************)
C8_HalfDaysAreBusinessDays ==
    (built # None /\ built[1].rules = DefaultRules) =>
        \A d \in cal.halfdays :
            /\ ~OnWeekend(d)
            /\ d \notin cal.holidays
            /\ is_business_day(cal, d)

\* a build over part of 2000..2050 with the day after Thanksgiving 2021 and
\* a Monday July 3 among its half-days
C8_Witness ==
    /\ built # None
    /\ built[1].rules = DefaultRules
    /\ BuiltStart > 2000
    /\ BuiltEnd < 2050
    /\ DaysFromCivil(2021, 11, 26) \in cal.halfdays
    /\ \E d \in cal.halfdays : weekday(d) = "Mon"

(***************************************************************************)
(* C9: after any sequence of add_holiday_rule and populate_cal calls the   *)
(* Calendar get_cal returns is calc_calendar of the rule list as it was at *)
(* the latest populate_cal, over that call's start (2000 if omitted) and   *)
(* end (2050 if omitted), and the empty Calendar if populate_cal never     *)
(* ran; add_holiday_rule alone does not change it (the rule list may have  *)
(* grown since the build) and nothing of an earlier snapshot is kept.      *)
(***************************************************************************)
C9_CachedCalendar ==
    get_cal = IF built = None THEN EmptyCalendar
              ELSE CalendarOf(calc_calendar(built[1].rules, BuiltStart, BuiltEnd))

\* a rule added, a rebuild over a narrower range, then another rule added
C9_Witness ==
    /\ built # None
    /\ built[1].start # None
    /\ Len(built[1].rules) > Len(DefaultRules)
    /\ Len(holiday_rules) > Len(built[1].rules)
    /\ cal.holidays # {}

(***************************************************************************)
(* C10: building from any permutation of the rule list, and from the list  *)
(* with one rule repeated, gives the same holiday set, the same half-day   *)
(* set and the same is_weekend / is_business_day answers as building from  *)
(* the list itself.  (All permutations of lists of up to four rules; the   *)
(* reversal and the adjacent swaps of longer ones.)                        *)
(***************************************************************************)
Permuted(L) ==
    IF Len(L) <= 4
    THEN {[i \in 1 .. Len(L) |-> L[p[i]]] : p \in Permutations(1 .. Len(L))}
    ELSE {[i \in 1 .. Len(L) |-> L[Len(L) + 1 - i]]}
         \cup {[i \in 1 .. Len(L) |-> IF i = k THEN L[k + 1]
                                      ELSE IF i = k + 1 THEN L[k] ELSE L[i]] :
               k \in 1 .. (Len(L) - 1)}

Repeated(L) ==
    {Append(L, L[i]) : i \in 1 .. Len(L)} \cup {<<L[i]>> \o L : i \in 1 .. Len(L)}

\* a week around each date the walks start from
C10_Probes == {a + k : a \in WalkArgs, k \in -3 .. 3}

C10_OrderIrrelevant ==
    (pc = "idle" /\ built # None) =>
        \A V \in Permuted(built[1].rules) \cup Repeated(built[1].rules) :
            LET b == calc_calendar(V, BuiltStart, BuiltEnd)
            IN  /\ ~b.panicked
                /\ b.holidays = cal.holidays
                /\ b.halfdays = cal.halfdays
                /\ \A d \in C10_Probes \cup cal.holidays \cup cal.halfdays :
                      /\ is_weekend(CalendarOf(b), d) = is_weekend(cal, d)
                      /\ is_business_day(CalendarOf(b), d) = is_business_day(cal, d)

\* two rules that touch the same date (one's half-day is the other's
\* holiday), built in an order that is not the only one
C10_Witness ==
    /\ pc = "idle"
    /\ built # None
    /\ Len(built[1].rules) = 2
    /\ built[1].rules[1] # built[1].rules[2]
    /\ cal.halfdays \cap cal.holidays # {}

(***************************************************************************)
(* C12: a single MonthWeekday rule with a valid month generates exactly    *)
(* one holiday for every year of its clamped range: it lies in the rule's  *)
(* month, falls on the rule's weekday, and its day of month is in 1..7 for *)
(* First, 8..14 for Second, 15..21 for Third, 22..28 for Fourth and within *)
(* the last seven days of the month for Last.                              *)
(***************************************************************************)
NthDays(y) ==
    CASE TheRule.nth = "First" -> 1 .. 7
      [] TheRule.nth = "Second" -> 8 .. 14
      [] TheRule.nth = "Third" -> 15 .. 21
      [] TheRule.nth = "Fourth" -> 22 .. 28
      [] TheRule.nth = "Last" ->
            (DaysInMonth(y, TheRule.month) - 6) .. DaysInMonth(y, TheRule.month)

C12_NthWeekdayOfMonth ==
    (SingleBuilt({"MonthWeekday"}) /\ TheRule.month \in 1 .. 12) =>
        /\ \A y \in ClampedYears :
              /\ Cardinality({d \in cal.holidays : year_of(d) = y}) = 1
              /\ \A d \in cal.holidays :
                    year_of(d) = y =>
                        /\ month_of(d) = TheRule.month
                        /\ weekday(d) = TheRule.weekday
                        /\ day_of(d) \in NthDays(y)
        /\ Cardinality(cal.holidays) = Cardinality(ClampedYears)

\* Thanksgiving: the 4th Thursday of November 2021 is November 25, and with
\* After the 26th is a half-day
C12_Witness ==
    /\ SingleBuilt({"MonthWeekday"})
    /\ TheRule.month = 11 /\ TheRule.weekday = "Thu" /\ TheRule.nth = "Fourth"
    /\ TheRule.half_check = Some("After")
    /\ DaysFromCivil(2021, 11, 25) \in cal.holidays
    /\ DaysFromCivil(2021, 11, 26) \in cal.halfdays
    /\ Cardinality(cal.holidays) > 1


(***************************************************************************)
(* The serde encoding of the rule list (derive(Serialize, Deserialize) on  *)
(* NthWeek, HalfCheck and Holiday; serde_json).  A JSON document is held   *)
(* as its value tree; a JSON string is the sequence of its characters.     *)
(* Enums are externally tagged: a unit variant is its name as a string, a  *)
(* newtype or struct variant is an object with the variant's name as its   *)
(* only key.  Option is null or the value.  NaiveDate is written as        *)
(* YYYY-MM-DD (years 0 .. 9999) and read back through from_ymd_opt.        *)
(***************************************************************************)
JNull == [t |-> "null"]
JNum(n) == [t |-> "num", n |-> n]
JStr(chars) == [t |-> "str", chars |-> chars]
JArr(items) == [t |-> "arr", items |-> items]
JObj(members) == [t |-> "obj", members |-> members]
Member(key, value) == [key |-> key, value |-> value]

\* Result<T, serde_json::Error>
Ok(v) == [ok |-> TRUE, v |-> v]
Err == [ok |-> FALSE]

\* the spelling of the unit variants' names
Spelling ==
    [Mon |-> <<"M", "o", "n">>, Tue |-> <<"T", "u", "e">>,
     Wed |-> <<"W", "e", "d">>, Thu |-> <<"T", "h", "u">>,
     Fri |-> <<"F", "r", "i">>, Sat |-> <<"S", "a", "t">>,
     Sun |-> <<"S", "u", "n">>,
     First |-> <<"F", "i", "r", "s", "t">>,
     Second |-> <<"S", "e", "c", "o", "n", "d">>,
     Third |-> <<"T", "h", "i", "r", "d">>,
     Fourth |-> <<"F", "o", "u", "r", "t", "h">>,
     Last |-> <<"L", "a", "s", "t">>,
     Before |-> <<"B", "e", "f", "o", "r", "e">>,
     After |-> <<"A", "f", "t", "e", "r">>]

Digits == <<"0", "1", "2", "3", "4", "5", "6", "7", "8", "9">>
is_digit(c) == \E i \in 1 .. Len(Digits) : Digits[i] = c
digit(c) == (CHOOSE i \in 1 .. Len(Digits) : Digits[i] = c) - 1
fmt2(n) == <<Digits[((n \div 10) % 10) + 1], Digits[(n % 10) + 1]>>
fmt4(n) == fmt2(n \div 100) \o fmt2(n % 100)

\* NaiveDate's text: YYYY-MM-DD
fmt_date(d) ==
    LET c == Civil(d)
    IN  fmt4(c.year) \o <<"-">> \o fmt2(c.month) \o <<"-">> \o fmt2(c.day)

parse_date(chars) ==
    IF /\ Len(chars) = Len(fmt_date(0))
       /\ \A i \in 1 .. Len(chars) :
             IF i \in {5, 8} THEN chars[i] = "-" ELSE is_digit(chars[i])
    THEN LET n(i) == digit(chars[i])
             d == from_ymd_opt(n(1) * 1000 + n(2) * 100 + n(3) * 10 + n(4),
                               n(6) * 10 + n(7), n(9) * 10 + n(10))
         IN  IF d = NoDate THEN Err ELSE Ok(d)
    ELSE Err

(* Serialize *)
ser_name(name) == JStr(Spelling[name])
ser_option_i32(o) == IF o = None THEN JNull ELSE JNum(o[1])
ser_option_HalfCheck(o) == IF o = None THEN JNull ELSE ser_name(o[1])

ser_Holiday(rule) ==
    CASE rule.kind = "WeekDay" ->
            JObj(<<Member("WeekDay", ser_name(rule.weekday))>>)
      [] rule.kind = "MovableYearlyDay" ->
            JObj(<<Member("MovableYearlyDay",
                JObj(<<Member("month", JNum(rule.month)),
                       Member("day", JNum(rule.day)),
                       Member("first", ser_option_i32(rule.first)),
                       Member("last", ser_option_i32(rule.last)),
                       Member("half_check", ser_option_HalfCheck(rule.half_check))>>))>>)
      [] rule.kind = "SingularDay" ->
            JObj(<<Member("SingularDay", JStr(fmt_date(rule.date)))>>)
      [] rule.kind = "EasterOffset" ->
            JObj(<<Member("EasterOffset",
                JObj(<<Member("offset", JNum(rule.offset)),
                       Member("first", ser_option_i32(rule.first)),
                       Member("last", ser_option_i32(rule.last))>>))>>)
      [] rule.kind = "MonthWeekday" ->
            JObj(<<Member("MonthWeekday",
                JObj(<<Member("month", JNum(rule.month)),
                       Member("weekday", ser_name(rule.weekday)),
                       Member("nth", ser_name(rule.nth)),
                       Member("first", ser_option_i32(rule.first)),
                       Member("last", ser_option_i32(rule.last)),
                       Member("half_check", ser_option_HalfCheck(rule.half_check))>>))>>)

\* serde_json::to_string(&Vec<Holiday>)
to_string_value(rules) == JArr([i \in 1 .. Len(rules) |-> ser_Holiday(rules[i])])

(* Deserialize *)
de_name(j, names) ==
    IF j.t = "str" /\ \E n \in names : Spelling[n] = j.chars
    THEN Ok(CHOOSE n \in names : Spelling[n] = j.chars)
    ELSE Err

\* every number of the model fits i32; u32 refuses the negative ones
de_i32(j) == IF j.t = "num" THEN Ok(j.n) ELSE Err
de_u32(j) == IF j.t = "num" /\ j.n >= 0 THEN Ok(j.n) ELSE Err
de_NaiveDate(j) == IF j.t = "str" THEN parse_date(j.chars) ELSE Err

\* mutant: null is read as the year 0
de_option_i32_zero(j) ==
    IF j.t = "null" THEN Ok(Some(0))
    ELSE IF de_i32(j).ok THEN Ok(Some(de_i32(j).v)) ELSE Err

de_option_i32(j) ==
    IF j.t = "null" THEN Ok(None)
    ELSE IF de_i32(j).ok THEN Ok(Some(de_i32(j).v)) ELSE Err

de_option_HalfCheck(j) ==
    IF j.t = "null" THEN Ok(None)
    ELSE IF de_name(j, HalfChecks).ok THEN Ok(Some(de_name(j, HalfChecks).v)) ELSE Err

has_field(members, key) == \E i \in 1 .. Len(members) : members[i].key = key
field(members, key) ==
    members[CHOOSE i \in 1 .. Len(members) : members[i].key = key].value
duplicate_field(members) ==
    \E i, k \in 1 .. Len(members) : i # k /\ members[i].key = members[k].key

\* a field of a struct variant: a missing field is an error, except that a
\* missing Option is None
required_u32(members, key) ==
    IF has_field(members, key) THEN de_u32(field(members, key)) ELSE Err
required_i32(members, key) ==
    IF has_field(members, key) THEN de_i32(field(members, key)) ELSE Err
required_name(members, key, names) ==
    IF has_field(members, key) THEN de_name(field(members, key), names) ELSE Err
optional_i32(members, key) ==
    IF has_field(members, key) THEN de_option_i32(field(members, key)) ELSE Ok(None)
optional_HalfCheck(members, key) ==
    IF has_field(members, key) THEN de_option_HalfCheck(field(members, key))
    ELSE Ok(None)

de_MovableYearlyDay(j) ==
    IF j.t # "obj" THEN Err
    ELSE IF duplicate_field(j.members) THEN Err
    ELSE LET m == j.members
             month == required_u32(m, "month")
             day == required_u32(m, "day")
             first == optional_i32(m, "first")
             last == optional_i32(m, "last")
             half_check == optional_HalfCheck(m, "half_check")
         IN  IF month.ok /\ day.ok /\ first.ok /\ last.ok /\ half_check.ok
             THEN Ok(MovableYearlyDay(month.v, day.v, first.v, last.v, half_check.v))
             ELSE Err

de_EasterOffset(j) ==
    IF j.t # "obj" THEN Err
    ELSE IF duplicate_field(j.members) THEN Err
    ELSE LET m == j.members
             offset == required_i32(m, "offset")
             first == optional_i32(m, "first")
             last == optional_i32(m, "last")
         IN  IF offset.ok /\ first.ok /\ last.ok
             THEN Ok(EasterOffset(offset.v, first.v, last.v))
             ELSE Err

de_MonthWeekday(j) ==
    IF j.t # "obj" THEN Err
    ELSE IF duplicate_field(j.members) THEN Err
    ELSE LET m == j.members
             month == required_u32(m, "month")
             wd == required_name(m, "weekday", WeekdaySet)
             nth == required_name(m, "nth", NthWeeks)
             first == optional_i32(m, "first")
             last == optional_i32(m, "last")
             half_check == optional_HalfCheck(m, "half_check")
         IN  IF month.ok /\ wd.ok /\ nth.ok /\ first.ok /\ last.ok /\ half_check.ok
             THEN Ok(MonthWeekday(month.v, wd.v, nth.v, first.v, last.v, half_check.v))
             ELSE Err

de_Holiday(j) ==
    IF j.t # "obj" THEN Err
    ELSE IF Len(j.members) # 1 THEN Err
    ELSE LET tag == j.members[1].key
             body == j.members[1].value
         IN  CASE tag = "WeekDay" ->
                     (IF de_name(body, WeekdaySet).ok
                      THEN Ok(WeekDay(de_name(body, WeekdaySet).v)) ELSE Err)
               [] tag = "MovableYearlyDay" -> de_MovableYearlyDay(body)
               [] tag = "SingularDay" ->
                     (IF de_NaiveDate(body).ok
                      THEN Ok(SingularDay(de_NaiveDate(body).v)) ELSE Err)
               [] tag = "EasterOffset" -> de_EasterOffset(body)
               [] tag = "MonthWeekday" -> de_MonthWeekday(body)
               [] OTHER -> Err

\* serde_json::from_str::<Vec<Holiday>>
from_str_value(j) ==
    IF j.t # "arr" THEN Err
    ELSE LET rs == [i \in 1 .. Len(j.items) |-> de_Holiday(j.items[i])]
         IN  IF \A i \in 1 .. Len(rs) : rs[i].ok
             THEN Ok([i \in 1 .. Len(rs) |-> rs[i].v])
             ELSE Err

\* what Result::unwrap() panics with on Err
unwrap_err ==
    [message |-> "called Result::unwrap() on an Err value",
     location |-> "src/calendar.rs"]

\* let json = serde_json::to_string_pretty(&holidays).unwrap()
to_string ==
    /\ Quiet
    /\ json = None
    /\ json' = Some(to_string_value(holiday_rules))
    /\ UNCHANGED <<holiday_rules, cal, built, crashed, pc, date, arg, panic, decoded>>

\* let holidays2: Vec<Holiday> = serde_json::from_str(&json).unwrap()
from_str ==
    /\ Quiet
    /\ json # None
    /\ decoded = None
    /\ LET r == from_str_value(json[1])
       IN  IF r.ok
           THEN decoded' = Some(r.v) /\ UNCHANGED <<crashed, panic>>
           ELSE crashed' = TRUE /\ panic' = Some(unwrap_err) /\ UNCHANGED decoded
    /\ UNCHANGED <<holiday_rules, cal, built, pc, date, arg, json>>

(* the lists that are encoded: one rule of each variant, in the order of   *)
(* the serialization test and in the order of the declaration, and the     *)
(* short lists                                                             *)
JsonWeekDays == {WeekDay(w) : w \in WeekdaySet}
JsonMovables ==
    {MovableYearlyDay(11, 1, Some(2016), None, None),
     MovableYearlyDay(7, 4, None, None, None),
     MovableYearlyDay(12, 25, Some(YearLo), Some(YearHi), Some("Before")),
     MovableYearlyDay(2, 29, None, Some(0), Some("After"))}
JsonSingulars ==
    {SingularDay(from_ymd(2019, 11, 25)), SingularDay(from_ymd(2001, 9, 11)),
     SingularDay(from_ymd(YearLo, 2, 29)), SingularDay(from_ymd(1969, 12, 31))}
JsonEasters ==
    {EasterOffset(-2, None, None), EasterOffset(0, Some(-1), None),
     EasterOffset(39, Some(YearLo), Some(YearHi))}
JsonMonthWeekdays ==
    {MonthWeekday(11, "Mon", "First", None, None, None),
     MonthWeekday(11, "Thu", "Fourth", None, Some(YearHi), Some("After")),
     MonthWeekday(5, "Mon", "Last", Some(1971), None, Some("Before")),
     MonthWeekday(9, "Tue", "Second", Some(YearLo), Some(YearHi), None),
     MonthWeekday(1, "Fri", "Third", None, None, Some("Before"))}

JsonLists ==
    { <<m, y, s, w, e>> :
        m \in JsonMonthWeekdays, y \in JsonMovables, s \in JsonSingulars,
        w \in JsonWeekDays, e \in JsonEasters }
    \cup { <<w, y, s, e, m>> :
        m \in JsonMonthWeekdays, y \in JsonMovables, s \in JsonSingulars,
        w \in {WeekDay("Sat")}, e \in JsonEasters }
    \cup {<<>>}
    \cup { <<r>> : r \in JsonMovables \cup JsonEasters }

InitJson == \E rules \in JsonLists : CallerInit(rules)
NextJson == to_string \/ from_str
SpecJson == InitJson /\ [][NextJson]_vars

AllKinds == {"WeekDay", "MovableYearlyDay", "SingularDay", "EasterOffset", "MonthWeekday"}
OptionalFields == {"first", "last", "half_check"}

\* the encoding of rule i of the list
BodyOf(i) == json[1].items[i].members[1].value

\* C11: decoding the JSON encoding of a rule list never fails and yields a
\* list of the same length whose rules equal the original ones one by one;
\* every unset optional field is written as null and read back as unset
C11_JsonRoundTrip ==
    /\ json # None => json[1] = to_string_value(holiday_rules)
    /\ json # None => ~crashed
    /\ json # None =>
          \A i \in 1 .. Len(holiday_rules) :
              \A f \in OptionalFields \cap DOMAIN holiday_rules[i] :
                  /\ has_field(BodyOf(i).members, f)
                  /\ holiday_rules[i][f] = None <=>
                        field(BodyOf(i).members, f) = JNull
    /\ decoded # None =>
          /\ Len(decoded[1]) = Len(holiday_rules)
          /\ \A i \in 1 .. Len(holiday_rules) : decoded[1][i] = holiday_rules[i]

C11_Witness ==
    /\ decoded # None
    /\ {holiday_rules[i].kind : i \in 1 .. Len(holiday_rules)} = AllKinds
    /\ \E i \in 1 .. Len(holiday_rules) :
          /\ holiday_rules[i].kind = "MonthWeekday"
          /\ \A f \in OptionalFields : holiday_rules[i][f] = None
          /\ \A f \in OptionalFields : decoded[1][i][f] = None
    /\ \E i \in 1 .. Len(holiday_rules) :
          /\ holiday_rules[i].kind = "MovableYearlyDay"
          /\ \A f \in OptionalFields : decoded[1][i][f] # None


(***************************************************************************)
(* Builds over rules whose (month, day) is no date                         *)
(***************************************************************************)
\* a holder whose rule list holds rules that are no date in some or in every
\* year, next to rules that are valid
BadRules ==
    { WeekDay("Sat"),
      MovableYearlyDay(7, 4, None, None, Some("Before")),
      MovableYearlyDay(2, 29, None, None, None),
      MovableYearlyDay(2, 29, None, Some(YearLo), None),
      MovableYearlyDay(4, 31, None, None, None),
      MovableYearlyDay(13, 1, Some(YearLo + 2), None, None),
      MonthWeekday(13, "Mon", "First", None, None, None),
      MonthWeekday(0, "Mon", "Last", None, None, Some("After")) }

BadLists == UNION {[1 .. n -> BadRules] : n \in 1 .. MaxRules}

InitBad == \E rules \in BadLists : CallerInit(rules)
NextBad == \E s \in Years, e \in Years : s <= e /\ populate_cal(Some(s), Some(e))
SpecBad == InitBad /\ [][NextBad]_vars

\* the rule names no date in year y
NoDateIn(rule, y) ==
    CASE rule.kind = "MovableYearlyDay" ->
            ~(/\ rule.month \in 1 .. 12
              /\ rule.day \in 1 .. DaysInMonth(y, rule.month))
      [] rule.kind = "MonthWeekday" -> rule.month \notin 1 .. 12
      [] OTHER -> FALSE

\* the years a rule is evaluated for in a build over s .. e
RuleYears(rule, s, e) ==
    IF rule.kind \in {"WeekDay", "SingularDay"} THEN {}
    ELSE { y \in s .. e :
             /\ rule.first # None => y >= rule.first[1]
             /\ rule.last # None => y <= rule.last[1] }

\* the (rule, year) pairs of the holder's list that name no date
Offending ==
    { <<i, y>> \in (1 .. Len(holiday_rules)) \X Years :
        /\ y \in RuleYears(holiday_rules[i], YearLo, YearHi)
        /\ NoDateIn(holiday_rules[i], y) }

\* C14: a build over a rule that names no date in a year of its clamped
\* range returns no Calendar; it fails, the failure identifies the offending
\* rule and year, and the holder's Calendar is still the one of the latest
\* build that succeeded
C14_FailureNamesRuleAndYear ==
    /\ built # None =>
          \A i \in 1 .. Len(holiday_rules) :
              \A y \in RuleYears(holiday_rules[i], BuiltStart, BuiltEnd) :
                  ~NoDateIn(holiday_rules[i], y)
    /\ crashed =>
          /\ panic # None
          /\ "rule" \in DOMAIN panic[1]
          /\ "year" \in DOMAIN panic[1]
          /\ <<panic[1].rule, panic[1].year>> \in Offending
    /\ crashed =>
          cal = IF built = None THEN EmptyCalendar
                ELSE CalendarOf(calc_calendar(holiday_rules, BuiltStart, BuiltEnd))


(***************************************************************************)
(* Walks over any weekend set, inside and outside the built years.  The    *)
(* window stands for the representable dates NaiveDate::MIN .. MAX: one    *)
(* step past its edge succ_opt() / pred_opt() is None and unwrap() panics. *)
(***************************************************************************)
\* date = date.succ_opt().unwrap() on the last representable date
next_biz_day_overflow ==
    /\ pc = "next_biz_day"
    /\ ~crashed
    /\ ~is_business_day(cal, date)
    /\ ~InWindow(date)
    /\ crashed' = TRUE
    /\ panic' = Some(unwrap_none)
    /\ UNCHANGED <<holiday_rules, cal, built, json, decoded, pc, date, arg>>

\* date = date.pred_opt().unwrap() on the first representable date
prev_biz_day_overflow ==
    /\ pc = "prev_biz_day"
    /\ ~crashed
    /\ ~is_business_day(cal, date)
    /\ ~InWindow(date)
    /\ crashed' = TRUE
    /\ panic' = Some(unwrap_none)
    /\ UNCHANGED <<holiday_rules, cal, built, json, decoded, pc, date, arg>>

\* the weekdays in the order the weekend lists grow
WeekendOrder == <<"Sat", "Sun", "Mon", "Tue", "Wed", "Thu", "Fri">>
WeekendRules(n) == [i \in 1 .. n |-> WeekDay(WeekendOrder[i])]

\* holiday rules next to the weekend rules: one in the middle of a year and
\* one on the last day of a year
WalkHolidays ==
    { MovableYearlyDay(7, 4, None, None, Some("Before")),
      SingularDay(from_ymd(YearLo + 2, 12, 31)) }

\* no weekend weekday up to all seven, with and without a holiday rule, and
\* the default table
WalkLists ==
    {WeekendRules(n) : n \in 0 .. Len(WeekendOrder)}
    \cup {WeekendRules(n) \o <<h>> : n \in 0 .. (Len(WeekendOrder) - 1), h \in WalkHolidays}
    \cup {DefaultRules}

\* the years a Calendar is built for: the window holds a year before them
\* and a year after them
WalkYears == (YearLo + 1) .. (YearLo + 2)

\* dates before, in and after the built years, and next to their two ends
FarArgs ==
    { from_ymd(YearLo, 6, 30), from_ymd(YearLo + 1, 1, 2),
      from_ymd(YearLo + 1, 7, 2), from_ymd(YearLo + 2, 12, 30),
      from_ymd(YearHi, 3, 15) }

InitWalk == \E rules \in WalkLists : CallerInit(rules)

NextWalk ==
    \/ \E s \in WalkYears, e \in WalkYears :
          s <= e /\ built = None /\ populate_cal(Some(s), Some(e))
    \/ \E d \in FarArgs : built # None /\ next_biz_day_call(d)
    \/ \E d \in FarArgs : built # None /\ prev_biz_day_call(d)
    \/ next_biz_day_loop
    \/ prev_biz_day_loop
    \/ next_biz_day_return
    \/ prev_biz_day_return
    \/ next_biz_day_overflow
    \/ prev_biz_day_overflow
    \/ resume

SpecWalk == InitWalk /\ [][NextWalk]_vars

\* a call that runs keeps running: its loop steps while the date is closed,
\* and it returns (or panics) once it cannot step
SpecWalkFair ==
    /\ SpecWalk
    /\ WF_vars(next_biz_day_loop)
    /\ WF_vars(prev_biz_day_loop)
    /\ WF_vars(next_biz_day_return)
    /\ WF_vars(prev_biz_day_return)
    /\ WF_vars(next_biz_day_overflow)
    /\ WF_vars(prev_biz_day_overflow)

Returned == pc \in {"next_returned", "prev_returned"}
Walking == pc \in {"next_biz_day", "prev_biz_day"}
BuiltYears == BuiltStart .. BuiltEnd

\* the dates from which on (up to which) the Calendar holds no holiday
PastHolidays(d) == \A h \in cal.holidays : h < d
BeforeHolidays(d) == \A h \in cal.holidays : h > d

C15_WalksReturn ==
    (Walking /\ WeekendSet(cal) # WeekdaySet) ~> Returned

\* a prev walk that began after the built years and returned a date there,
\* with six of the seven weekdays weekend weekdays
C15_Witness ==
    /\ pc = "prev_returned"
    /\ built # None
    /\ year_of(arg) > BuiltEnd
    /\ year_of(date) > BuiltEnd
    /\ Cardinality(WeekendSet(cal)) = Len(WeekendOrder) - 1
    /\ arg - date > 3

====
